---- MODULE Spec2Model ----
(***************************************************************************)
(* A model of dataloader/DataLoader.py: the line classifier, the boundary  *)
(* detector, the separator sniffer, the keyword extractor, and the         *)
(* DataLoader store (load_file, load_files, concat_spec, delete_file,      *)
(* delete_files, save).                                                    *)
(*                                                                         *)
(* A Python str is a sequence of one-character strings.  A regular         *)
(* expression is a record tree; Ends(re, s, P) is the set of offsets at    *)
(* which a match of re that starts at an offset of P can end.              *)
(***************************************************************************)
EXTENDS Integers, Sequences, FiniteSets, TLC

VARIABLES
    line,       \* SpecRow: the str handed to IS_NUMERIC_ROW.match / find_sep
    lines,      \* SpecLines: the list of str handed to find_skip / extract_keyword
    keyword,    \* SpecLines: the keyword handed to extract_keyword
    fs,         \* Spec: the files on disk, path -> content
    spec_dict,  \* Spec: DataLoader.spec_dict, in insertion order
    loaded,     \* Spec: history, the paths load_file loaded and whose records are all still stored
    saved,      \* Spec: history, path -> the record save last wrote there, if any
    last,       \* Spec: the last call: its arguments, its outcome, the store and loaded before it
    calls       \* Spec: the number of calls made

vars == <<line, lines, keyword, fs, spec_dict, loaded, saved, last, calls>>

storeVars == <<fs, spec_dict, loaded, saved, last, calls>>

(***************************************************************************)
(* Bounds                                                                  *)
(***************************************************************************)
MaxLen == 4

MaxLines == 3

MaxCalls == 4

(***************************************************************************)
(* Characters                                                              *)
(***************************************************************************)
NL == "\n"

TAB == "\t"

DIGITS == {"0", "1", "2", "3", "4", "5", "6", "7", "8", "9"}

SIGNS == {"+", "-"}

DELIMS == {" ", ",", TAB}

Max(S) == CHOOSE m \in S : \A x \in S : x <= m

Min(S) == CHOOSE m \in S : \A x \in S : m <= x

(***************************************************************************)
(* Regular expressions (the subset of Python's re the module uses)         *)
(***************************************************************************)
Cls(c) == [k |-> "cls", c |-> c]

Dot == [k |-> "dot"]

Cat(parts) == [k |-> "cat", parts |-> parts]

Opt(a) == [k |-> "opt", a |-> a]

Star(a) == [k |-> "star", a |-> a]

Plus(a) == Cat(<<a, Star(a)>>)

Eol == [k |-> "eol"]

\* a run of literal characters
Lit(w) == [k |-> "lit", w |-> w]

\* '$' without re.MULTILINE: the end of the string, or just before a newline
\* that is the last character of the string.
AtEol(s, p) == p = Len(s) \/ (p = Len(s) - 1 /\ s[Len(s)] = NL)

RECURSIVE Ends(_, _, _)
RECURSIVE CatEnds(_, _, _)
RECURSIVE StarEnds(_, _, _, _)
Ends(re, s, P) ==
    CASE re.k = "cls" -> {p + 1 : p \in {q \in P : q < Len(s) /\ s[q + 1] \in re.c}}
      [] re.k = "lit" -> {p + Len(re.w) : p \in {q \in P : q + Len(re.w) <= Len(s) /\ SubSeq(s, q + 1, q + Len(re.w)) = re.w}}
      [] re.k = "dot" -> {p + 1 : p \in {q \in P : q < Len(s) /\ s[q + 1] # NL}}
      [] re.k = "cat" -> CatEnds(re.parts, s, P)
      [] re.k = "opt" -> P \cup Ends(re.a, s, P)
      [] re.k = "star" -> StarEnds(re.a, s, P, P)
      [] re.k = "eol" -> {p \in P : AtEol(s, p)}

CatEnds(parts, s, P) ==
    IF parts = <<>> \/ P = {} THEN P
    ELSE CatEnds(Tail(parts), s, Ends(Head(parts), s, P))

StarEnds(a, s, acc, frontier) ==
    IF frontier = {} THEN acc
    ELSE LET new == Ends(a, s, frontier) \ acc
         IN StarEnds(a, s, acc \cup new, new)

\* pattern.match(s): the pattern matches at the start of s
Matches(re, s) == Ends(re, s, {0}) # {}

(***************************************************************************)
(* The module's patterns                                                   *)
(***************************************************************************)
NUMERIC_PATTERN_NoSign == Cat(<<Plus(Cls(DIGITS)), Opt(Cat(<<Cls({"."}), Plus(Cls(DIGITS))>>))>>)

NUMERIC_PATTERN == Cat(<<Opt(Cls(SIGNS)), Plus(Cls(DIGITS)), Opt(Cat(<<Cls({"."}), Plus(Cls(DIGITS))>>))>>)

SEP_PATTERN == Plus(Cls(DELIMS))

IS_NUMERIC_ROW == Cat(<<Star(Cat(<<NUMERIC_PATTERN, SEP_PATTERN>>)), NUMERIC_PATTERN, Eol>>)

is_numeric(s) == Matches(IS_NUMERIC_ROW, s)

\* IS_NUMERIC_SEP_NUMERIC = ^(NUMERIC)(SEP)(NUMERIC).  The quantifiers are
\* greedy, so the backtracking matcher tries the longest group 1 first and,
\* for it, the longest group 2 first.  SepSpans is the set of <<end of group
\* 1, end of group 2>> over all ways the pattern matches.
SepSpans(s) ==
    {sp \in Ends(NUMERIC_PATTERN, s, {0}) \X (0 .. Len(s)) :
        /\ sp[2] \in Ends(SEP_PATTERN, s, {sp[1]})
        /\ Ends(NUMERIC_PATTERN, s, {sp[2]}) # {}}

\* the first way the matcher finds: <<end of group 1, end of group 2>>
FirstSpan(spans) ==
    LET e1 == Max({sp[1] : sp \in spans})
    IN  <<e1, Max({sp[2] : sp \in {t \in spans : t[1] = e1}})>>

GroupText(s, from, to) == SubSeq(s, from + 1, to)

SepGroup1(s, spans) == IF spans = {} THEN <<>> ELSE GroupText(s, 0, FirstSpan(spans)[1])

\* matched.group(2), or '' when the pattern does not match
SepGroup2(s, spans) == IF spans = {} THEN <<>> ELSE GroupText(s, FirstSpan(spans)[1], FirstSpan(spans)[2])

find_sep_Group1(s) == SepGroup1(s, SepSpans(s))

find_sep(s) == SepGroup2(s, SepSpans(s))

(***************************************************************************)
(* SpecRow: every str over RowAlphabet of at most MaxLen characters        *)
(***************************************************************************)
RowAlphabet == {"1", "+", "-", ".", ",", " ", TAB, "e", NL}

RowInit ==
    /\ line = <<>>
    /\ lines = <<>>
    /\ keyword = <<>>
    /\ fs = <<>>
    /\ spec_dict = <<>>
    /\ loaded = {}
    /\ saved = <<>>
    /\ last = <<>>
    /\ calls = 0

RowAppend ==
    /\ Len(line) < MaxLen
    /\ \E c \in RowAlphabet : line' = Append(line, c)
    /\ UNCHANGED <<lines, keyword, storeVars>>

RowNext == RowAppend

SpecRow == RowInit /\ [][RowNext]_vars

\* The grammar of a numeric row as a scanner over the line without its one
\* optional final terminator.
StripTerminator(s) == IF s # <<>> /\ s[Len(s)] = NL THEN SubSeq(s, 1, Len(s) - 1) ELSE s

RowStep(q, c) ==
    CASE q = "start" -> IF c \in SIGNS THEN "sign" ELSE IF c \in DIGITS THEN "int" ELSE "bad"
      [] q = "sign" -> IF c \in DIGITS THEN "int" ELSE "bad"
      [] q = "int" -> IF c \in DIGITS THEN "int" ELSE IF c = "." THEN "dot"
                      ELSE IF c \in DELIMS THEN "delim" ELSE "bad"
      [] q = "dot" -> IF c \in DIGITS THEN "frac" ELSE "bad"
      [] q = "frac" -> IF c \in DIGITS THEN "frac" ELSE IF c \in DELIMS THEN "delim" ELSE "bad"
      [] q = "delim" -> IF c \in DELIMS THEN "delim" ELSE IF c \in SIGNS THEN "sign"
                        ELSE IF c \in DIGITS THEN "int" ELSE "bad"
      [] q = "bad" -> "bad"

RECURSIVE RowScan(_, _)
RowScan(q, s) == IF s = <<>> THEN q ELSE RowScan(RowStep(q, Head(s)), Tail(s))

TokenRow(s) == RowScan("start", StripTerminator(s)) \in {"int", "frac"}

\* C7: IS_NUMERIC_ROW accepts a line iff, up to one optional final line
\* terminator, the line is one or more numeric tokens (optional single sign,
\* digits, optional decimal point followed by digits) separated by non-empty
\* runs of spaces, commas or tabs.
C7_Classifier == is_numeric(line) <=> TokenRow(line)

C7_Witness ==
    /\ Len(line) = 4
    /\ is_numeric(line)
    /\ line[Len(line)] = NL
    /\ \E i \in 1 .. Len(line) : line[i] \in DELIMS

\* The delimiter run that follows the first token of a numeric row.
RECURSIVE TakeDelims(_)
TakeDelims(s) ==
    IF s # <<>> /\ Head(s) \in DELIMS THEN <<Head(s)>> \o TakeDelims(Tail(s)) ELSE <<>>

RECURSIVE DropToken(_)
DropToken(s) == IF s = <<>> \/ Head(s) \in DELIMS THEN s ELSE DropToken(Tail(s))

FirstDelimRun(s) == TakeDelims(DropToken(s))

\* C9: for every line the classifier accepts, find_sep returns exactly the
\* delimiter run between the first and the second token, character for
\* character, and the empty string when the line has a single token.
C9_FindSep == is_numeric(line) => find_sep(line) = FirstDelimRun(line)

C9_Witness ==
    /\ is_numeric(line)
    /\ find_sep(line) = <<",", " ">>

(***************************************************************************)
(* Python values: None, a str, a raised exception                          *)
(***************************************************************************)
PyNone == [t |-> "None"]

Str(s) == [t |-> "str", s |-> s]

Raised(e) == [t |-> "raise", e |-> e]

IsRaised(v) == v.t = "raise"

(***************************************************************************)
(* find_skip                                                               *)
(***************************************************************************)
\* for i, line in enumerate(lines): if IS_NUMERIC_ROW.match(line): break
\* else: i = -1
RECURSIVE find_skip_loop(_, _)
find_skip_loop(ls, i) ==
    IF i >= Len(ls) THEN -1
    ELSE IF is_numeric(ls[i + 1]) THEN i
    ELSE find_skip_loop(ls, i + 1)

find_skip_NotFoundZero(ls) == IF find_skip_loop(ls, 0) = -1 THEN 0 ELSE find_skip_loop(ls, 0)

find_skip(ls) == find_skip_loop(ls, 0)

\* lines[::-1]
Reversed(ls) == [i \in 1 .. Len(ls) |-> ls[Len(ls) + 1 - i]]

(***************************************************************************)
(* extract_keyword                                                         *)
(***************************************************************************)
\* re.compile(f'^# {keyword}: (.*)$').  The keyword is put in the pattern
\* unescaped; the keywords of the model are words of letters and '_', which
\* the pattern matches literally.
KeywordPrefix(kw) == <<"#", " ">> \o kw \o <<":", " ">>

\* The end offsets of group 1, (.*), over all ways the pattern matches line l.
KeywordEnds(l, kw) ==
    Ends(Eol, l, Ends(Star(Dot), l, Ends(Lit(KeywordPrefix(kw)), l, {0})))

\* pattern.match(line).group(1): '.*' is greedy, the longest value is tried first
KeywordGroup(l, kw) == SubSeq(l, Len(KeywordPrefix(kw)) + 1, Max(KeywordEnds(l, kw)))

\* matched = [pattern.match(line).group(1) for line in lines if pattern.match(line)]
RECURSIVE KeywordMatched(_, _)
KeywordMatched(ls, kw) ==
    IF ls = <<>> THEN <<>>
    ELSE (IF KeywordEnds(Head(ls), kw) # {} THEN <<KeywordGroup(Head(ls), kw)>> ELSE <<>>)
         \o KeywordMatched(Tail(ls), kw)

KeywordValue_FirstMatch(matched) ==
    IF Len(matched) = 0 THEN PyNone
    ELSE IF matched[1] = <<>> THEN PyNone
    ELSE Str(matched[1])

\* the value extract_keyword returns, or the error it raises, for the list matched
KeywordValue(matched) ==
    IF Len(matched) = 0 THEN PyNone
    ELSE IF Len(matched) = 1
         THEN (IF matched[1] = <<>> THEN PyNone ELSE Str(matched[1]))
    ELSE Raised("ValueError: Keyword is duplicated.")

extract_keyword(ls, kw) == KeywordValue(KeywordMatched(ls, kw))

(***************************************************************************)
(* The keywords load_file extracts                                         *)
(***************************************************************************)
KW_abs_path_raw == <<"a", "b", "s", "_", "p", "a", "t", "h", "_", "r", "a", "w">>

KW_abs_path_ref == <<"a", "b", "s", "_", "p", "a", "t", "h", "_", "r", "e", "f">>

KW_calibration == <<"c", "a", "l", "i", "b", "r", "a", "t", "i", "o", "n">>

KW_description == <<"d", "e", "s", "c", "r", "i", "p", "t", "i", "o", "n">>

KW_fitting_function == <<"f", "i", "t", "t", "i", "n", "g", "_", "f", "u", "n", "c", "t", "i", "o", "n">>

KW_fitting_range == <<"f", "i", "t", "t", "i", "n", "g", "_", "r", "a", "n", "g", "e">>

KW_fitting_values == <<"f", "i", "t", "t", "i", "n", "g", "_", "v", "a", "l", "u", "e", "s">>

KW_device == <<"d", "e", "v", "i", "c", "e">>

(***************************************************************************)
(* SpecLines: every list of at most MaxLines lines of LinePool             *)
(***************************************************************************)
HeaderLine(kw, value) == KeywordPrefix(kw) \o value \o <<NL>>

LinePool ==
    { HeaderLine(KW_device, <<"x">>),
      KeywordPrefix(KW_device) \o <<"y", " ">>,
      HeaderLine(KW_device, <<>>),
      HeaderLine(KW_description, <<"x", ":", " ", "#">>),
      <<"#">> \o KW_device \o <<":", " ", "x", NL>>,
      <<" ">> \o HeaderLine(KW_device, <<"x">>),
      <<"1", ",", "2", NL>>,
      <<"-", "1">>,
      <<"a", NL>>,
      <<"1", ",", " ", NL>>,
      <<NL>> }

LinesKeywords == {KW_device, KW_description}

LinesInit ==
    /\ line = <<>>
    /\ lines = <<>>
    /\ keyword \in LinesKeywords
    /\ fs = <<>>
    /\ spec_dict = <<>>
    /\ loaded = {}
    /\ saved = <<>>
    /\ last = <<>>
    /\ calls = 0

LinesAppend ==
    /\ Len(lines) < MaxLines
    /\ \E l \in LinePool : lines' = Append(lines, l)
    /\ UNCHANGED <<line, keyword, storeVars>>

LinesNext == LinesAppend

SpecLines == LinesInit /\ [][LinesNext]_vars

\* A line of the form '# <key>: <value>': the prefix, then a value without a
\* line terminator, then at most one final terminator.
HasForm(l, kw) ==
    LET pre == KeywordPrefix(kw)
        body == StripTerminator(l)
    IN  /\ Len(body) >= Len(pre)
        /\ SubSeq(body, 1, Len(pre)) = pre
        /\ \A i \in 1 .. Len(body) : body[i] # NL

FormValue(l, kw) == SubSeq(StripTerminator(l), Len(KeywordPrefix(kw)) + 1, Len(StripTerminator(l)))

FormIndexes(ls, kw) == {i \in 1 .. Len(ls) : HasForm(ls[i], kw)}

\* C6: extract_keyword returns null when no line has the form
\* '# <key>: <value>', the value (without the line terminator, an empty value
\* as null) when exactly one line has it, and raises 'duplicated keyword'
\* when two or more lines have it.
C6_ExtractKeyword ==
    LET idx == FormIndexes(lines, keyword)
        got == extract_keyword(lines, keyword)
    IN  /\ idx = {} => got = PyNone
        /\ Cardinality(idx) = 1 =>
              LET v == FormValue(lines[CHOOSE i \in idx : TRUE], keyword)
              IN  got = IF v = <<>> THEN PyNone ELSE Str(v)
        /\ Cardinality(idx) >= 2 => IsRaised(got)

C6_Witness ==
    /\ Cardinality(FormIndexes(lines, keyword)) >= 2
    /\ IsRaised(extract_keyword(lines, keyword))
    /\ \E i \in FormIndexes(lines, keyword) : FormValue(lines[i], keyword) # <<>>

NumericIndexes(ls) == {i \in 0 .. Len(ls) - 1 : is_numeric(ls[i + 1])}

\* C8: find_skip returns the index of the first line the classifier accepts
\* and -1 when it accepts none; for a list of n lines whose numeric lines are
\* exactly one contiguous block from index k to before index n-m, find_skip
\* returns k and find_skip of the reversed list returns m.
C8_FindSkip ==
    LET n == Len(lines)
        num == NumericIndexes(lines)
    IN  /\ num = {} => find_skip(lines) = -1
        /\ num # {} => /\ find_skip(lines) \in num
                       /\ \A j \in num : find_skip(lines) <= j
        /\ \A k \in 0 .. n : \A m \in 0 .. n :
              (k < n - m /\ num = k .. (n - m - 1)) =>
                  /\ find_skip(lines) = k
                  /\ find_skip(Reversed(lines)) = m

C8_Witness ==
    /\ Len(lines) = 3
    /\ NumericIndexes(lines) = {1}
    /\ find_skip(lines) = 1
    /\ find_skip(Reversed(lines)) = 1

(***************************************************************************)
(* Python values of the store: bool, list, numbers and their text          *)
(***************************************************************************)
Bool(b) == [t |-> "bool", b |-> b]

\* a list of str (the header lines kept as a description)
StrList(l) == [t |-> "strlist", l |-> l]

\* a list of float
Floats(f) == [t |-> "floats", f |-> f]

\* Python truthiness of a metadata value: None, '' and [] are false
Truthy(v) ==
    CASE v.t = "None" -> FALSE
      [] v.t = "str" -> v.s # <<>>
      [] v.t = "strlist" -> v.l # <<>>
      [] v.t = "floats" -> v.f # <<>>

DigitChar(d) == CASE d = 0 -> "0" [] d = 1 -> "1" [] d = 2 -> "2" [] d = 3 -> "3" [] d = 4 -> "4"
                  [] d = 5 -> "5" [] d = 6 -> "6" [] d = 7 -> "7" [] d = 8 -> "8" [] d = 9 -> "9"

DigitVal(c) == CHOOSE d \in 0 .. 9 : DigitChar(d) = c

\* str(n) of an int
RECURSIVE NatToStr(_)
NatToStr(n) == IF n < 10 THEN <<DigitChar(n)>> ELSE NatToStr(n \div 10) \o <<DigitChar(n % 10)>>

IntToStr(n) == IF n < 0 THEN <<"-">> \o NatToStr(-n) ELSE NatToStr(n)

\* The integer literals '[+-]?\d+'.  The numeric cells of the model's files
\* are integer literals and its fitting parameters are integer literals or
\* words float() rejects, so a number is an Int.
IsIntLiteral(tok) == tok # <<>> /\ Len(tok) \in Ends(Cat(<<Opt(Cls(SIGNS)), Plus(Cls(DIGITS))>>), tok, {0})

RECURSIVE DigitsVal(_, _)
DigitsVal(ds, acc) == IF ds = <<>> THEN acc ELSE DigitsVal(Tail(ds), 10 * acc + DigitVal(Head(ds)))

ParseInt(tok) ==
    IF Head(tok) = "-" THEN -DigitsVal(Tail(tok), 0)
    ELSE IF Head(tok) = "+" THEN DigitsVal(Tail(tok), 0)
    ELSE DigitsVal(tok, 0)

\* s.split(sep) for a non-empty sep, also re.split of a separator that is a
\* run of spaces, commas and tabs (no metacharacter)
RECURSIVE Split(_, _)
RECURSIVE SplitAt(_, _, _)
Split(s, sep) ==
    SplitAt(s, sep, {i \in 1 .. Len(s) - Len(sep) + 1 : SubSeq(s, i, i + Len(sep) - 1) = sep})

SplitAt(s, sep, hits) ==
    IF hits = {} THEN <<s>>
    ELSE <<SubSeq(s, 1, Min(hits) - 1)>> \o Split(SubSeq(s, Min(hits) + Len(sep), Len(s)), sep)

\* sep.join(parts)
RECURSIVE Join(_, _)
Join(parts, sep) ==
    IF parts = <<>> THEN <<>>
    ELSE IF Len(parts) = 1 THEN parts[1]
    ELSE parts[1] \o sep \o Join(Tail(parts), sep)

\* list(map(float, value.split(', '))): float() raises ValueError on a token
\* that is no number
FloatsOf(toks) ==
    IF \A i \in 1 .. Len(toks) : IsIntLiteral(toks[i])
    THEN Floats([i \in 1 .. Len(toks) |-> ParseInt(toks[i])])
    ELSE Raised("ValueError: could not convert string to float")

ParseFloats(value) == FloatsOf(Split(value, <<",", " ">>))

\* repr(s) of a str: single quotes unless s holds a single and no double quote
RECURSIVE ReprBody(_, _)
ReprBody(s, q) ==
    IF s = <<>> THEN <<>>
    ELSE (CASE Head(s) = NL -> <<"\\", "n">>
            [] Head(s) = TAB -> <<"\\", "t">>
            [] Head(s) = "\\" -> <<"\\", "\\">>
            [] Head(s) = q -> <<"\\", q>>
            [] OTHER -> <<Head(s)>>) \o ReprBody(Tail(s), q)

HasChar(s, c) == \E i \in 1 .. Len(s) : s[i] = c

ReprStr(s) ==
    LET q == IF HasChar(s, "'") /\ ~HasChar(s, "\"") THEN "\"" ELSE "'"
    IN  <<q>> \o ReprBody(s, q) \o <<q>>

\* repr(l) of a list of str
ReprStrList(l) == <<"[">> \o Join([i \in 1 .. Len(l) |-> ReprStr(l[i])], <<",", " ">>) \o <<"]">>

\* f'{v}' of a metadata value
Format(v) ==
    CASE v.t = "None" -> <<"N", "o", "n", "e">>
      [] v.t = "str" -> v.s
      [] v.t = "strlist" -> ReprStrList(v.l)

(***************************************************************************)
(* Files                                                                   *)
(***************************************************************************)
Text(ls) == [t |-> "text", lines |-> ls]

\* bytes that open(filename, 'r') cannot decode
Undecodable == [t |-> "bytes"]

PathA == <<"a">>

PathB == <<"b">>

PathC == <<"c">>

Paths == {PathA, PathB, PathC}

\* three columns, a header line and a footer line; no abs_path_raw
FileA == Text(<< HeaderLine(KW_calibration, <<"x">>),
                 <<"1", ",", "2", ",", "3", NL>>,
                 <<"4", ",", "5", ",", "-", "6", NL>>,
                 <<"e", "n", "d", NL>> >>)

\* two columns separated by a tab; abs_path_raw and fitting_range declared
FileB == Text(<< HeaderLine(KW_abs_path_raw, <<"r">>),
                 HeaderLine(KW_fitting_range, <<"1", ",", " ", "2">>),
                 <<"1", "0", TAB, "2", NL>>,
                 <<"3", TAB, "4", NL>> >>)

FileNoNumeric == Text(<< <<"x", NL>> >>)

FileDuplicated == Text(<< HeaderLine(KW_device, <<"x">>),
                          HeaderLine(KW_device, <<"y">>),
                          <<"1", ",", " ", "2", NL>> >>)

FileBadValues == Text(<< HeaderLine(KW_fitting_values, <<"x">>),
                         <<"1", ",", "2", NL>> >>)

\* two columns, abs_path_raw declared, nothing else
FilePlain == Text(<< HeaderLine(KW_abs_path_raw, <<"r">>),
                     <<"1", " ", " ", "2", NL>> >>)

\* the contents of path c
FilesC == {FileNoNumeric, FileDuplicated, FileBadValues, FilePlain, Undecodable}

(***************************************************************************)
(* pd.read_csv(filename, engine='python', sep=sep, skiprows=skiprows,      *)
(*             skipfooter=skipfooter, header=None): the rows of the frame. *)
(* The numeric blocks of the files of the model, and of the files save     *)
(* writes, have at least two columns, the same number of fields on every   *)
(* line and integer literals as fields: read_csv with sep = '' (a first    *)
(* numeric line of one token), with ragged lines or with cells that are no *)
(* integers is outside the model.  Blank lines are skipped.                *)
(***************************************************************************)
RowFields(l, sep) == Split(StripTerminator(l), sep)

RECURSIVE BlockRows(_, _)
BlockRows(ls, sep) ==
    IF ls = <<>> THEN <<>>
    ELSE (IF StripTerminator(Head(ls)) = <<>> THEN <<>> ELSE <<RowFields(Head(ls), sep)>>)
         \o BlockRows(Tail(ls), sep)

Frame(rows) ==
    [t |-> "frame", rows |-> [i \in 1 .. Len(rows) |-> [j \in 1 .. Len(rows[i]) |-> ParseInt(rows[i][j])]]]

read_csv(ls, sep, skiprows, skipfooter) ==
    Frame(BlockRows(SubSeq(ls, skiprows + 1, Len(ls) - skipfooter), sep))

\* df.shape[1]
FrameColumns(df) == IF df.rows = <<>> THEN 0 ELSE Len(df.rows[1])

\* df.iloc[:, j].values, j from 0
Column(df, j) == [i \in 1 .. Len(df.rows) |-> df.rows[i][j + 1]]

(***************************************************************************)
(* Spectrum                                                                *)
(***************************************************************************)
Renishaw == <<"R", "e", "n", "i", "s", "h", "a", "w">>

Andor == <<"A", "n", "d", "o", "r">>

CCS == <<"C", "C", "S">>

Unknown == <<"U", "n", "k", "n", "o", "w", "n">>

\* Spectrum.__post_init__: the device follows from the length of xdata
PostInitDevice(xdata) ==
    IF Len(xdata) = 1015 THEN Renishaw
    ELSE IF Len(xdata) = 1024 THEN Andor
    ELSE IF Len(xdata) = 3648 THEN CCS
    ELSE Unknown

\* a one-dimensional array, shape (n,)
Array1(v) == [nd |-> 1, v |-> v]

\* a two-dimensional array of one column, shape (n, 1)
Array2(v) == [nd |-> 2, v |-> v]

\* Spectrum(**spectrum_dict); the appearance fields keep their defaults
Spectrum(d, xdata, ydata) ==
    [xdata |-> xdata, ydata |-> ydata, device |-> PostInitDevice(xdata),
     abs_path_raw |-> d.abs_path_raw, abs_path_ref |-> d.abs_path_ref,
     calibration |-> d.calibration, description |-> d.description,
     fitting_function |-> d.fitting_function, fitting_range |-> d.fitting_range,
     fitting_values |-> d.fitting_values]

(***************************************************************************)
(* spec_dict: a dict, kept as the sequence of its items in insertion order *)
(***************************************************************************)
Keys(store) == {store[i].key : i \in 1 .. Len(store)}

Get(store, k) == store[CHOOSE i \in 1 .. Len(store) : store[i].key = k].spec

\* store[k] = spec: a present key keeps its place
Put(store, k, spec) ==
    IF k \in Keys(store)
    THEN [i \in 1 .. Len(store) |-> IF store[i].key = k THEN [key |-> k, spec |-> spec] ELSE store[i]]
    ELSE Append(store, [key |-> k, spec |-> spec])

\* del store[k] of a present key
RECURSIVE Del(_, _)
Del(store, k) ==
    IF store = <<>> THEN <<>>
    ELSE IF Head(store).key = k THEN Tail(store)
    ELSE <<Head(store)>> \o Del(Tail(store), k)

(***************************************************************************)
(* DataLoader.load_file                                                    *)
(***************************************************************************)
\* f'{filename}({i})'
ColumnKey_FromOne(filename, i) == filename \o <<"(">> \o IntToStr(i + 1) \o <<")">>

ColumnKey(filename, i) == filename \o <<"(">> \o IntToStr(i) \o <<")">>

\* value = list(map(float, value.split(', '))) if value is not None, else []
FittingList(value) ==
    IF IsRaised(value) THEN value
    ELSE IF value # PyNone THEN ParseFloats(value.s) ELSE Floats(<<>>)

FirstRaised(steps, errors) == steps[Min(errors)]

\* spectrum_dict after the loop over the keywords, from the value (or the
\* error) of each step of the loop, in the order of the loop
FieldsOf(steps, filename, head) ==
    IF {i \in 1 .. Len(steps) : IsRaised(steps[i])} # {}
    THEN FirstRaised(steps, {i \in 1 .. Len(steps) : IsRaised(steps[i])})
    ELSE [t |-> "fields",
          abs_path_raw |-> steps[1],
          abs_path_ref |-> steps[2],
          calibration |-> steps[3],
          description |-> IF steps[1] = Str(filename) THEN StrList(head) ELSE steps[4],
          fitting_function |-> steps[5],
          fitting_range |-> steps[6],
          fitting_values |-> steps[7]]

\* if value is None: value = filename
RawOrFilename(value, filename) == IF value = PyNone THEN Str(filename) ELSE value

HeaderFields(ls, filename, skiprows) ==
    FieldsOf(<< RawOrFilename(extract_keyword(ls, KW_abs_path_raw), filename),
                extract_keyword(ls, KW_abs_path_ref),
                extract_keyword(ls, KW_calibration),
                extract_keyword(ls, KW_description),
                extract_keyword(ls, KW_fitting_function),
                FittingList(extract_keyword(ls, KW_fitting_range)),
                FittingList(extract_keyword(ls, KW_fitting_values)),
                extract_keyword(ls, KW_device) >>,
             filename, SubSeq(ls, 1, skiprows))

\* for i, ydata in enumerate(spectrum_dict['ydata']): one record per column
RECURSIVE PutColumns(_, _, _, _, _)
PutColumns(store, filename, d, df, i) ==
    IF i > FrameColumns(df) - 2 THEN store
    ELSE PutColumns(Put(store, ColumnKey(filename, i),
                        Spectrum(d, Column(df, 0), Array1(Column(df, i + 1)))),
                    filename, d, df, i + 1)

\* the branches on df.shape[1]
StoreFrame(store, filename, d, df) ==
    IF FrameColumns(df) = 1
    THEN [ret |-> Bool(TRUE),
          store |-> Put(store, filename,
                        Spectrum(d, [i \in 1 .. Len(df.rows) |-> i], Array1(Column(df, 0))))]
    ELSE IF FrameColumns(df) = 2
    THEN [ret |-> Bool(TRUE),
          store |-> Put(store, filename,
                        Spectrum(d, Column(df, 0), Array2(Column(df, 1))))]
    ELSE [ret |-> Bool(TRUE), store |-> PutColumns(store, filename, d, df, 0)]

\* from the keyword loop on
LoadBlock(store, filename, ls, skiprows, skipfooter, d) ==
    IF IsRaised(d) THEN [ret |-> d, store |-> store]
    ELSE StoreFrame(store, filename, d, read_csv(ls, find_sep(ls[skiprows + 1]), skiprows, skipfooter))

\* from skiprows = find_skip(lines) on
LoadLines(store, filename, ls, skiprows) ==
    IF skiprows = -1
    THEN [ret |-> Raised("ValueError: No numeric data found."), store |-> store]
    ELSE LoadBlock(store, filename, ls, skiprows, find_skip(Reversed(ls)),
                   HeaderFields(ls, filename, skiprows))

\* load_file without its first test
load_file_NoGuard(store, files, filename) ==
    IF files[filename].t = "bytes" THEN [ret |-> Bool(FALSE), store |-> store]
    ELSE LoadLines(store, filename, files[filename].lines, find_skip(files[filename].lines))

\* load_file(filename) on the store and the files: the value returned or the
\* error raised, and the store it leaves.
load_file(store, files, filename) ==
    IF filename \in Keys(store) THEN [ret |-> Bool(FALSE), store |-> store]
    ELSE load_file_NoGuard(store, files, filename)

(***************************************************************************)
(* DataLoader.load_files                                                   *)
(***************************************************************************)
\* ok_dict[filename] = ok
SetItem(dict, k, v) == [x \in DOMAIN dict \cup {k} |-> IF x = k THEN v ELSE dict[x]]

EmptyDict == [x \in {} |-> FALSE]

\* The loop of load_files from the i-th filename on: an error raised by
\* load_file ends the loop and leaves load_files.  trues collects the
\* filenames load_file returned True for.
RECURSIVE load_files_loop(_, _, _, _, _, _)
RECURSIVE load_files_step(_, _, _, _, _, _)
load_files_loop(store, files, filenames, i, ok_dict, trues) ==
    IF i > Len(filenames)
    THEN [ret |-> [t |-> "dict", d |-> ok_dict], store |-> store, trues |-> trues]
    ELSE load_files_step(load_file(store, files, filenames[i]), files, filenames, i, ok_dict, trues)

load_files_step(r, files, filenames, i, ok_dict, trues) ==
    IF IsRaised(r.ret) THEN [ret |-> r.ret, store |-> r.store, trues |-> trues]
    ELSE load_files_loop(r.store, files, filenames, i + 1,
                         SetItem(ok_dict, filenames[i], r.ret.b),
                         IF r.ret.b THEN trues \cup {filenames[i]} ELSE trues)

load_files(store, files, filenames) == load_files_loop(store, files, filenames, 1, EmptyDict, {})

(***************************************************************************)
(* DataLoader.delete_file, delete_files                                    *)
(***************************************************************************)
delete_file_Ignore(store, filename) == [ret |-> PyNone, store |-> Del(store, filename)]

delete_file(store, filename) ==
    IF filename \in Keys(store) THEN [ret |-> PyNone, store |-> Del(store, filename)]
    ELSE [ret |-> Raised("KeyError"), store |-> store]

RECURSIVE delete_files_loop(_, _, _)
RECURSIVE delete_files_step(_, _, _)
delete_files_loop(store, filenames, i) ==
    IF i > Len(filenames) THEN [ret |-> PyNone, store |-> store]
    ELSE delete_files_step(delete_file(store, filenames[i]), filenames, i)

delete_files_step(r, filenames, i) ==
    IF IsRaised(r.ret) THEN r ELSE delete_files_loop(r.store, filenames, i + 1)

delete_files(store, filenames) == delete_files_loop(store, filenames, 1)

(***************************************************************************)
(* DataLoader.concat_spec                                                  *)
(***************************************************************************)
RECURSIVE ConcatX(_)
ConcatX(store) == IF store = <<>> THEN <<>> ELSE Head(store).spec.xdata \o ConcatX(Tail(store))

RECURSIVE ConcatY(_)
ConcatY(store) == IF store = <<>> THEN <<>> ELSE Head(store).spec.ydata.v \o ConcatY(Tail(store))

Table(xs, ys) == [t |-> "frame", rows |-> [i \in 1 .. Len(xs) |-> <<xs[i], ys[i]>>]]

\* np.hstack(xdata_list), np.hstack(ydata_list), np.vstack([xdata_all,
\* ydata_all]).T: the rows <<x, y>> of the frame, or the ValueError numpy
\* raises.  hstack joins arrays of one dimension end to end and arrays of
\* shape (n, 1) side by side into shape (n, k), which vstack can put under
\* the k * n values of x only when n = 1.
Stack(store, dims, lens) ==
    IF store = <<>> THEN Raised("ValueError: need at least one array to concatenate")
    ELSE IF dims = {1} THEN Table(ConcatX(store), ConcatY(store))
    ELSE IF dims = {2}
         THEN (IF lens = {1} THEN Table(ConcatX(store), ConcatY(store))
               ELSE Raised("ValueError: array dimensions must match"))
    ELSE Raised("ValueError: arrays must have the same number of dimensions")

concat_spec(store) ==
    Stack(store, {store[i].spec.ydata.nd : i \in 1 .. Len(store)},
          {Len(store[i].spec.ydata.v) : i \in 1 .. Len(store)})

(***************************************************************************)
(* DataLoader.save, with filename_as given                                 *)
(***************************************************************************)
FormatOrEmpty(v) == IF Truthy(v) THEN Format(v) ELSE <<>>

SaveHeader(spec) ==
    << HeaderLine(KW_abs_path_raw, Format(spec.abs_path_raw)),
       HeaderLine(KW_abs_path_ref, FormatOrEmpty(spec.abs_path_ref)),
       HeaderLine(KW_calibration, FormatOrEmpty(spec.calibration)),
       HeaderLine(KW_device, spec.device),
       HeaderLine(KW_description, FormatOrEmpty(spec.description)),
       HeaderLine(KW_fitting_function, FormatOrEmpty(spec.fitting_function)) >>

\* for x, y in data: f.write(f'{x},{y}\n')
SaveRows(spec) ==
    [i \in 1 .. Len(spec.xdata) |-> IntToStr(spec.xdata[i]) \o <<",">> \o IntToStr(spec.ydata.v[i]) \o <<NL>>]

\* the writes of save for the record spec: the error raised, if any, and the
\* lines written.  ",".join of a non-empty list of float raises TypeError
\* after the lines before it are written.
SaveLines(spec, head) ==
    IF Truthy(spec.fitting_range)
    THEN [ret |-> Raised("TypeError: sequence item 0: expected str instance, float found"),
          lines |-> head]
    ELSE IF Truthy(spec.fitting_values)
         THEN [ret |-> Raised("TypeError: sequence item 0: expected str instance, float found"),
               lines |-> head \o <<HeaderLine(KW_fitting_range, <<>>)>>]
    ELSE [ret |-> PyNone,
          lines |-> head \o <<HeaderLine(KW_fitting_range, <<>>), HeaderLine(KW_fitting_values, <<>>), <<NL>>>>
                    \o SaveRows(spec)]

Written(w, files, filename_as) == [ret |-> w.ret, files |-> [files EXCEPT ![filename_as] = Text(w.lines)]]

\* save(filename, filename_as): the error raised, if any, and the files it
\* leaves; the file is closed with what was written before an error.
save(store, files, filename, filename_as) ==
    IF filename \notin Keys(store) THEN [ret |-> Raised("KeyError"), files |-> files]
    ELSE Written(SaveLines(Get(store, filename), SaveHeader(Get(store, filename))), files, filename_as)

(***************************************************************************)
(* Spec: a DataLoader() and the calls made on it                           *)
(***************************************************************************)
\* the keys a load of path p makes
Owns(p, k) == k = p \/ \E i \in 0 .. 9 : k = ColumnKey(p, i)

KeyArgs == Paths \cup {ColumnKey(PathA, 0), ColumnKey(PathA, 1)}

\* the lists handed to load_files: every list of at most two of ListPaths
ListPaths == {PathA, PathC}

FileLists == {<<>>} \cup {<<p>> : p \in ListPaths} \cup {<<p, q>> : p \in ListPaths, q \in ListPaths}

\* the lists handed to delete_files: every pair of ListKeys
ListKeys == {ColumnKey(PathA, 0), PathC}

DeleteLists == {<<k1, k2>> : k1 \in ListKeys, k2 \in ListKeys}

SavePaths == {PathC}

NotSaved == [t |-> "None"]

Init ==
    /\ line = <<>>
    /\ lines = <<>>
    /\ keyword = <<>>
    /\ \E c \in FilesC : fs = [p \in Paths |-> IF p = PathA THEN FileA ELSE IF p = PathB THEN FileB ELSE c]
    /\ spec_dict = <<>>
    /\ loaded = {}
    /\ saved = [p \in Paths |-> NotSaved]
    /\ last = [op |-> "init"]
    /\ calls = 0

Call(op, arg, ret) == [op |-> op, arg |-> arg, ret |-> ret, before |-> spec_dict, loaded |-> loaded]

\* the paths whose records a call removed lose their place in loaded
StillLoaded(after) == {p \in loaded : \A k \in Keys(spec_dict) \ Keys(after) : ~Owns(p, k)}

Loaded(r, filename) ==
    /\ spec_dict' = r.store
    /\ loaded' = IF r.ret = Bool(TRUE) THEN loaded \cup {filename} ELSE loaded
    /\ last' = Call("load_file", filename, r.ret)

LoadFile ==
    /\ calls < MaxCalls
    /\ \E filename \in Paths : Loaded(load_file(spec_dict, fs, filename), filename)
    /\ calls' = calls + 1
    /\ UNCHANGED <<line, lines, keyword, fs, saved>>

LoadedAll(r, filenames) ==
    /\ spec_dict' = r.store
    /\ loaded' = loaded \cup r.trues
    /\ last' = Call("load_files", filenames, r.ret)

LoadFiles ==
    /\ calls < MaxCalls
    /\ \E filenames \in FileLists : LoadedAll(load_files(spec_dict, fs, filenames), filenames)
    /\ calls' = calls + 1
    /\ UNCHANGED <<line, lines, keyword, fs, saved>>

ConcatSpec ==
    /\ calls < MaxCalls
    /\ last' = Call("concat_spec", <<>>, concat_spec(spec_dict))
    /\ calls' = calls + 1
    /\ UNCHANGED <<line, lines, keyword, fs, spec_dict, loaded, saved>>

Deleted(r, op, arg) ==
    /\ spec_dict' = r.store
    /\ loaded' = StillLoaded(r.store)
    /\ last' = Call(op, arg, r.ret)

DeleteFile ==
    /\ calls < MaxCalls
    /\ \E filename \in KeyArgs : Deleted(delete_file(spec_dict, filename), "delete_file", filename)
    /\ calls' = calls + 1
    /\ UNCHANGED <<line, lines, keyword, fs, saved>>

DeleteFiles ==
    /\ calls < MaxCalls
    /\ \E filenames \in DeleteLists : Deleted(delete_files(spec_dict, filenames), "delete_files", filenames)
    /\ calls' = calls + 1
    /\ UNCHANGED <<line, lines, keyword, fs, saved>>

Saved(r, filename, filename_as) ==
    /\ fs' = r.files
    /\ saved' = IF filename \in Keys(spec_dict)
                THEN [saved EXCEPT ![filename_as] = Get(spec_dict, filename)]
                ELSE saved
    /\ last' = Call("save", <<filename, filename_as>>, r.ret)

Save ==
    /\ calls < MaxCalls
    /\ \E filename \in KeyArgs : \E filename_as \in SavePaths :
          Saved(save(spec_dict, fs, filename, filename_as), filename, filename_as)
    /\ calls' = calls + 1
    /\ UNCHANGED <<line, lines, keyword, spec_dict, loaded>>

Next == LoadFile \/ LoadFiles \/ ConcatSpec \/ DeleteFile \/ DeleteFiles \/ Save

Spec == Init /\ [][Next]_vars

(***************************************************************************)
(* The claims about the store                                              *)
(***************************************************************************)
Elements(seq) == {seq[i] : i \in 1 .. Len(seq)}

KEYWORDS == {KW_abs_path_raw, KW_abs_path_ref, KW_calibration, KW_description,
             KW_fitting_function, KW_fitting_range, KW_fitting_values, KW_device}

Readable(f) == f.t = "text"

NoNumericLine(ls) == \A i \in 1 .. Len(ls) : ~TokenRow(ls[i])

DuplicatedKeyword(ls) == \E kw \in KEYWORDS : Cardinality(FormIndexes(ls, kw)) >= 2

\* C1: load_files returns a map holding one success boolean for every path
\* of the list, no error propagates out of it, and a path of the list that
\* loads on its own is loaded whatever fails before it.
C1_LoadFilesNeverRaises ==
    last.op = "load_files" =>
        /\ last.ret.t = "dict"
        /\ DOMAIN last.ret.d = Elements(last.arg)
        /\ \A p \in Elements(last.arg) :
              load_file(<<>>, fs, p).ret = Bool(TRUE) => \E k \in Keys(spec_dict) : Owns(p, k)

\* C2: load_file on a path that an earlier load_file call loaded and whose
\* records were not deleted since returns false and leaves the store
\* unchanged, whatever the number of columns of the file.
C2_ReloadRejected ==
    (last.op = "load_file" /\ last.arg \in last.loaded) =>
        /\ last.ret = Bool(FALSE)
        /\ spec_dict = last.before

\* C3: on a readable file that is not loaded yet, load_file raises exactly
\* when the file has no line the classifier accepts or a recognized keyword
\* occurs on more than one line; otherwise it returns a boolean.
C3_OnlyTwoFatalCases ==
    (last.op = "load_file" /\ Readable(fs[last.arg]) /\ last.arg \notin Keys(last.before)) =>
        /\ IsRaised(last.ret) <=>
              (NoNumericLine(fs[last.arg].lines) \/ DuplicatedKeyword(fs[last.arg].lines))
        /\ ~IsRaised(last.ret) => last.ret.t = "bool"

SameRecord(r1, r2) ==
    /\ r1.xdata = r2.xdata
    /\ r1.ydata.v = r2.ydata.v
    /\ r1.abs_path_raw = r2.abs_path_raw
    /\ r1.abs_path_ref = r2.abs_path_ref
    /\ r1.calibration = r2.calibration
    /\ r1.description = r2.description
    /\ r1.fitting_function = r2.fitting_function
    /\ r1.fitting_range = r2.fitting_range
    /\ r1.fitting_values = r2.fitting_values

\* C4: save of a stored record writes its file without error, and load_file
\* of a file save wrote yields a record with the x_values, y_values and
\* metadata fields of the record saved.
C4_SaveLoadRoundTrip ==
    /\ (last.op = "save" /\ last.arg[1] \in Keys(last.before)) => ~IsRaised(last.ret)
    /\ (last.op = "load_file" /\ saved[last.arg] # NotSaved /\ last.arg \notin Keys(last.before)) =>
          /\ last.ret = Bool(TRUE)
          /\ last.arg \in Keys(spec_dict)
          /\ SameRecord(Get(spec_dict, last.arg), saved[last.arg])

\* The numeric block of a file read token by token: the lines from the first
\* to the last numeric line, each cut at its delimiter runs.
RECURSIVE TakeToken(_)
TakeToken(s) == IF s = <<>> \/ Head(s) \in DELIMS THEN <<>> ELSE <<Head(s)>> \o TakeToken(Tail(s))

RECURSIVE DropDelims(_)
DropDelims(s) == IF s # <<>> /\ Head(s) \in DELIMS THEN DropDelims(Tail(s)) ELSE s

RECURSIVE Tokens(_)
Tokens(s) == IF s = <<>> THEN <<>> ELSE <<TakeToken(s)>> \o Tokens(DropDelims(DropToken(s)))

SourceBlock(ls) ==
    IF NumericIndexes(ls) = {} THEN <<>>
    ELSE SubSeq(ls, Min(NumericIndexes(ls)) + 1, Max(NumericIndexes(ls)) + 1)

SourceColumns(ls) == Len(Tokens(StripTerminator(SourceBlock(ls)[1])))

SourceColumn(ls, j) ==
    [i \in 1 .. Len(SourceBlock(ls)) |-> ParseInt(Tokens(StripTerminator(SourceBlock(ls)[i]))[j + 1])]

Metadata(r) ==
    <<r.device, r.abs_path_raw, r.abs_path_ref, r.calibration, r.description,
      r.fitting_function, r.fitting_range, r.fitting_values>>

\* the key <path>(i)
IndexedKey(path, i) == path \o <<"(">> \o NatToStr(i) \o <<")">>

MultiColumnLoad ==
    /\ last.op = "load_file"
    /\ last.ret = Bool(TRUE)
    /\ SourceColumns(fs[last.arg].lines) > 2

\* C5: a load of a file whose numeric block has N > 2 columns stores exactly
\* N-1 records, keyed <path>(0) .. <path>(N-2): record i has the source
\* column i+1 as y_values, all have column 0 as x_values and the same
\* metadata, they follow the records stored before in column order, and none
\* is stored under the bare key <path>.
C5_MultiColumn ==
    MultiColumnLoad =>
        LET ls == fs[last.arg].lines
            N == SourceColumns(ls)
            made == {IndexedKey(last.arg, i) : i \in 0 .. N - 2}
        IN  /\ \A i \in 0 .. N - 2 :
                  /\ IndexedKey(last.arg, i) \in Keys(spec_dict)
                  /\ Get(spec_dict, IndexedKey(last.arg, i)).ydata = Array1(SourceColumn(ls, i + 1))
                  /\ Get(spec_dict, IndexedKey(last.arg, i)).xdata = SourceColumn(ls, 0)
                  /\ Metadata(Get(spec_dict, IndexedKey(last.arg, i)))
                        = Metadata(Get(spec_dict, IndexedKey(last.arg, 0)))
            /\ Keys(spec_dict) = Keys(last.before) \cup made
            /\ Cardinality(made) = N - 1
            /\ last.arg \notin Keys(spec_dict)
            /\ \A k \in Keys(last.before) \ made : Get(spec_dict, k) = Get(last.before, k)
            /\ Keys(last.before) \cap made = {} =>
                  /\ Len(spec_dict) = Len(last.before) + N - 1
                  /\ SubSeq(spec_dict, 1, Len(last.before)) = last.before
                  /\ \A i \in 0 .. N - 2 :
                        spec_dict[Len(last.before) + i + 1].key = IndexedKey(last.arg, i)

C5_Witness ==
    /\ MultiColumnLoad
    /\ SourceColumns(fs[last.arg].lines) = 3
    /\ Len(last.before) = 1
    /\ Len(spec_dict) = 3

\* the rows <<x, y>> of the records of a store other than the one under key k
RECURSIVE RowsExcept(_, _)
RowsExcept(store, k) ==
    IF store = <<>> THEN <<>>
    ELSE (IF Head(store).key = k THEN <<>>
          ELSE [i \in 1 .. Len(Head(store).spec.xdata) |->
                    <<Head(store).spec.xdata[i], Head(store).spec.ydata.v[i]>>])
         \o RowsExcept(Tail(store), k)

\* C10: delete_file on a key that is not in the store fails with KeyError
\* and leaves the store unchanged; on a key that is in the store it removes
\* exactly that key, leaves every other record and their order unchanged,
\* and the frame a following concat_spec builds holds the rows of the
\* remaining records only.
C10_DeleteFile ==
    last.op = "delete_file" =>
        IF last.arg \notin Keys(last.before)
        THEN /\ last.ret = Raised("KeyError")
             /\ spec_dict = last.before
        ELSE /\ last.ret = PyNone
             /\ Keys(spec_dict) = Keys(last.before) \ {last.arg}
             /\ Len(spec_dict) = Len(last.before) - 1
             /\ \A i \in 1 .. Len(spec_dict) : \E j \in i .. i + 1 : spec_dict[i] = last.before[j]
             /\ concat_spec(spec_dict).t = "frame" =>
                   concat_spec(spec_dict).rows = RowsExcept(last.before, last.arg)

C10_Witness ==
    /\ last.op = "delete_file"
    /\ last.arg \in Keys(last.before)
    /\ Len(spec_dict) >= 1
    /\ concat_spec(spec_dict).t = "frame"
    /\ concat_spec(last.before).t = "frame"
    /\ Len(concat_spec(spec_dict).rows) < Len(concat_spec(last.before).rows)

====
